---- MODULE Spec2Model ----
(***************************************************************************)
(* Plaud -> Notion sync (src/src/index.js).                                *)
(*                                                                         *)
(* The model follows main(): load the ledger, harvest recordings from the  *)
(* captured network responses (getPlaudRecordings), read the destination   *)
(* schema, reconcile every record (writeRecordingToNotion), save the       *)
(* ledger.  Spec is the specification of the runs of main(); PureSpec      *)
(* applies the functions of the program (extraction, merge, usefulness,    *)
(* loading and saving the ledger) to bounded sets of arguments.            *)
(*                                                                         *)
(* Representation of the JavaScript values:                                *)
(*   - a text (summary, transcript, title) is a record                     *)
(*       [tag, len, phrase]: which string it is, its length after trim,    *)
(*       and a phrase it contains ("" when it contains none of interest);  *)
(*   - an identity is a sequence of characters, so that prefix and         *)
(*     substring relations between identities are computed;                *)
(*   - a URL and the Source marker are sequences of tokens;                *)
(*   - a Notion page is [props, blocks, madeFor], props being a function   *)
(*     from property names to values.                                      *)
(***************************************************************************)
EXTENDS Integers, Sequences, FiniteSets, TLC

VARIABLES
    pc,            \* position of main(): idle, login, harvest, enrich, retrieve,
                   \* loop, done, failed (in the loop), aborted (before the loop)
    file,          \* synced-recordings.json: [shape, ids]
    synced,        \* the in-memory Set `synced` of main(), in insertion order
    apiPayloads,   \* the array the response listener of getPlaudRecordings pushes to
    recordings,    \* the array main() iterates
    aliased,       \* TRUE when `recordings` is the same array object as apiPayloads
    needs,         \* needsEnrichment of getPlaudRecordings
    byId,          \* the Map byId of getPlaudRecordings, in insertion order
    k,             \* index of the enrichment loop
    detailCandidates, \* detailCandidates of the enrichRecordingFromDetailPage call under way
    i,             \* index of the for-of loop of main()
    seenSummaries, \* the Map seenSummaries of main()
    created, updated, skipped, lowSignal,   \* the counters of main()
    schema,        \* db.properties of the destination database, in key order
    pages,         \* the pages of the destination database
    log,           \* history: destination calls issued in the current run
    loaded,        \* history: the identities loadSyncedIds returned in this run
    harvested,     \* history: number of records captured so far, over all runs
    runBatch,      \* history: the batch of this run, as harvested
    startEmpty,    \* history: the destination had no page when this run started
    prev,          \* history: the previous run, when it completed
    fn,            \* the function applied on its own ("none" during a run of main)
    input,         \* its arguments
    output         \* its result

\* the variables of the functions applied on their own
pureVars == <<fn, input, output>>

\* the variables of a run of main()
runVars == <<pc, file, synced, apiPayloads, recordings, aliased, needs, byId, k,
             detailCandidates, i,
             seenSummaries, created, updated, skipped, lowSignal, schema, pages,
             log, loaded, harvested, runBatch, startEmpty, prev>>

vars == <<pc, file, synced, apiPayloads, recordings, aliased, needs, byId, k,
          detailCandidates, i,
          seenSummaries, created, updated, skipped, lowSignal, schema, pages,
          log, loaded, harvested, runBatch, startEmpty, prev, fn, input, output>>

(***************************************************************************)
(* Bounds of the exploration.                                              *)
(***************************************************************************)
MaxHarvest == 3

\* number of elements of a response given to extractRecordingsFromApiJson
MaxElements == 2

\* number of entries of a ledger file given to loadSyncedIds
MaxEntries == 2

(***************************************************************************)
(* Generic helpers.                                                        *)
(***************************************************************************)
Range(s) == {s[n] : n \in DOMAIN s}

Min(a, b) == IF a <= b THEN a ELSE b

\* String.prototype.includes, on sequences of tokens
Contains(hay, needle) ==
    \E off \in 0..(Len(hay) - Len(needle)) :
        \A n \in 1..Len(needle) : hay[off + n] = needle[n]

\* new Set(array) / Set.prototype.add: keeps the first occurrence of each value
RECURSIVE SetFromArray(_)
SetAdd(s, v) == IF v \in Range(s) THEN s ELSE Append(s, v)
SetFromArray(a) ==
    IF a = <<>> THEN <<>>
    ELSE SetAdd(SetFromArray(SubSeq(a, 1, Len(a) - 1)), a[Len(a)])

(***************************************************************************)
(* Texts.                                                                  *)
(***************************************************************************)
EmptyText == [tag |-> "", len |-> 0, phrase |-> ""]
ShortText == [tag |-> "brief", len |-> 10, phrase |-> ""]
GoodText == [tag |-> "Discussed Q3 roadmap", len |-> 60, phrase |-> ""]
NoiseText == [tag |-> "Detailed Summary template", len |-> 60, phrase |-> "Detailed Summary"]
LongText == [tag |-> "full transcript", len |-> 150, phrase |-> ""]
PlaceholderTitle == [tag |-> "Plaud Recording", len |-> 15, phrase |-> ""]
RealTitle == [tag |-> "Weekly Sync", len |-> 11, phrase |-> ""]

\* a JavaScript string is truthy when it is not empty
Truthy(t) == t.len > 0

\* String.prototype.slice(0, n)
Slice(t, n) == [t EXCEPT !.len = Min(t.len, n)]

(***************************************************************************)
(* Identities, URLs, timestamps.                                           *)
(***************************************************************************)
IdA == <<"a">>
IdAB == <<"a", "b">>
IdX == <<"x">>
NoId == <<>>

NoUrl == <<>>
BaseUrl == <<"https://", "web.plaud.ai">>
ShareUrl == <<"https://", "share.plaud.ai", "/s/1">>

NoDate == "null"
BadDate == "not a date"
SomeDate == "2024-05-01T10:00:00.000Z"
Now == "now"

\* /^https?:\/\//i.test(url)
IsHttp(url) == Len(url) > 0 /\ url[1] \in {"http://", "https://"}

\* String(baseUrl).replace(/\/$/, "")
StripTrailingSlash(url) ==
    IF Len(url) > 0 /\ url[Len(url)] = "/" THEN SubSeq(url, 1, Len(url) - 1) ELSE url

\* encodeURIComponent, one character at a time
EncodeChar(c) == IF c = " " THEN "%20" ELSE c
encodeURIComponent(id) == [n \in 1..Len(id) |-> EncodeChar(id[n])]

buildPlaudRecordingUrl(baseUrl, rec) ==
    IF IsHttp(rec.sourceUrl) THEN rec.sourceUrl
    ELSE LET cleanedBase == StripTrailingSlash(baseUrl)
         IN IF rec.id = NoId THEN cleanedBase
            ELSE cleanedBase \o <<"/recordings/">> \o encodeURIComponent(rec.id)

\* null for a missing value and for a value Date cannot parse
toNotionDate(value) == IF value \in {NoDate, BadDate} THEN NoDate ELSE value

(***************************************************************************)
(* Records.                                                                *)
(***************************************************************************)
Rec(id, title, createdAt, summary, transcript, sourceUrl) ==
    [id |-> id, title |-> title, createdAt |-> createdAt, summary |-> summary,
     transcript |-> transcript, sourceUrl |-> sourceUrl, clearSummary |-> FALSE]

\* /^plaud\s*recording$/i.test(raw)
IsPlaceholder(t) == t.tag = PlaceholderTitle.tag

recordingDisplayName(rec) ==
    IF Truthy(rec.title) /\ ~IsPlaceholder(rec.title) THEN <<rec.title.tag>>
    ELSE IF toNotionDate(rec.createdAt) # NoDate
         THEN <<"Plaud recording ", toNotionDate(rec.createdAt)>>
         ELSE IF rec.id # NoId
              THEN <<"Plaud recording ">> \o SubSeq(rec.id, 1, Min(Len(rec.id), 8))
              ELSE <<"Plaud recording">>

RECURSIVE firstNonEmptyString(_)
firstNonEmptyString(values) ==
    IF values = <<>> THEN EmptyText
    ELSE IF Truthy(Head(values)) THEN Head(values)
         ELSE firstNonEmptyString(Tail(values))

\* firstNonEmptyString on the sourceUrl field
RECURSIVE firstNonEmptyUrl(_)
firstNonEmptyUrl(values) ==
    IF values = <<>> THEN NoUrl
    ELSE IF Len(Head(values)) > 0 THEN Head(values)
         ELSE firstNonEmptyUrl(Tail(values))

\* variants of mergeRecording: the base's value preferred; the summary of
\* the enrichment taken only when the enrichment brings a transcript as well
mergeRecordingBaseFirst(baseRec, enrichRec) ==
    [baseRec EXCEPT
        !.title = LET t == firstNonEmptyString(<<baseRec.title, enrichRec.title>>)
                  IN IF Truthy(t) THEN t ELSE PlaceholderTitle,
        !.createdAt = IF baseRec.createdAt # NoDate THEN baseRec.createdAt
                      ELSE enrichRec.createdAt,
        !.summary = firstNonEmptyString(<<baseRec.summary, enrichRec.summary>>),
        !.transcript = firstNonEmptyString(<<baseRec.transcript, enrichRec.transcript>>),
        !.sourceUrl = firstNonEmptyUrl(<<baseRec.sourceUrl, enrichRec.sourceUrl>>)]

mergeRecordingWithTranscript(baseRec, enrichRec) ==
    [baseRec EXCEPT
        !.title = LET t == firstNonEmptyString(<<enrichRec.title, baseRec.title>>)
                  IN IF Truthy(t) THEN t ELSE PlaceholderTitle,
        !.createdAt = IF enrichRec.createdAt # NoDate THEN enrichRec.createdAt
                      ELSE baseRec.createdAt,
        !.summary = IF Truthy(enrichRec.transcript)
                    THEN firstNonEmptyString(<<enrichRec.summary, baseRec.summary>>)
                    ELSE baseRec.summary,
        !.transcript = firstNonEmptyString(<<enrichRec.transcript, baseRec.transcript>>),
        !.sourceUrl = firstNonEmptyUrl(<<enrichRec.sourceUrl, baseRec.sourceUrl>>)]

mergeRecording(baseRec, enrichRec) ==
    [baseRec EXCEPT
        !.title = LET t == firstNonEmptyString(<<enrichRec.title, baseRec.title>>)
                  IN IF Truthy(t) THEN t ELSE PlaceholderTitle,
        !.createdAt = IF enrichRec.createdAt # NoDate THEN enrichRec.createdAt
                      ELSE baseRec.createdAt,
        !.summary = firstNonEmptyString(<<enrichRec.summary, baseRec.summary>>),
        !.transcript = firstNonEmptyString(<<enrichRec.transcript, baseRec.transcript>>),
        !.sourceUrl = firstNonEmptyUrl(<<enrichRec.sourceUrl, baseRec.sourceUrl>>)]

\* the fold of enrichRecordingFromDetailPage over detailCandidates
RECURSIVE enrichFold(_, _)
enrichFold(best, candidates) ==
    IF candidates = <<>> THEN best
    ELSE enrichFold(mergeRecording(best, Head(candidates)), Tail(candidates))

MinSummaryLen == 40
MinTranscriptLen == 120

\* String.prototype.toLowerCase, on the phrases of the texts
toLowerCase(phrase) ==
    CASE phrase = "Detailed Summary" -> "detailed summary"
      [] phrase = "TASK_ALT_ROUNDED" -> "task_alt_rounded"
      [] phrase = "Summary" -> "summary"
      [] OTHER -> phrase

Markers ==
    { "account_circle_rounded", "task_alt_rounded", "detailed summary",
      "full transcript (for external use)", "faithful and complete audio transcription",
      "extract meeting tasks and decisions" }

isTemplateNoise(text) == Truthy(text) /\ toLowerCase(text.phrase) \in Markers

\* hasUsefulContent without the test for template noise
hasUsefulContentAnySummary(rec) ==
    rec.summary.len >= MinSummaryLen \/ rec.transcript.len >= MinTranscriptLen

hasUsefulContent(rec) ==
    LET goodSummary == rec.summary.len >= MinSummaryLen /\ ~isTemplateNoise(rec.summary)
    IN goodSummary \/ rec.transcript.len >= MinTranscriptLen

\* variants of shouldUpsert that gate the write on usefulness, on the ledger
shouldUpsertUseful(rec) ==
    /\ rec.id # NoId \/ Truthy(rec.title) \/ rec.createdAt # NoDate \/ rec.sourceUrl # NoUrl
    /\ hasUsefulContent(rec)

shouldUpsertNew(rec) ==
    /\ rec.id # NoId \/ Truthy(rec.title) \/ rec.createdAt # NoDate \/ rec.sourceUrl # NoUrl
    /\ rec.id \notin Range(synced)

shouldUpsert(rec) ==
    \/ rec.id # NoId
    \/ Truthy(rec.title)
    \/ rec.createdAt # NoDate
    \/ rec.sourceUrl # NoUrl

(***************************************************************************)
(* Destination schema and the payload of a write.                          *)
(***************************************************************************)
Prop(name, type) == [name |-> name, type |-> type]

\* dbProperties?.[name]?.type
TypeOf(dbProperties, name) ==
    IF \E n \in DOMAIN dbProperties : dbProperties[n].name = name
    THEN LET n == CHOOSE n \in DOMAIN dbProperties : dbProperties[n].name = name
         IN dbProperties[n].type
    ELSE "undefined"

\* new Set(Object.keys(dbProperties))
PropertyNames(dbProperties) == {dbProperties[n].name : n \in DOMAIN dbProperties}

NoName == "null"
SummaryCandidates == <<"Summary", "Meeting Minutes", "Meeting Notes", "Notes">>

pickSummaryPropertyName(dbProperties) ==
    LET hits == {n \in DOMAIN SummaryCandidates :
                    TypeOf(dbProperties, SummaryCandidates[n]) = "rich_text"}
        others == {n \in DOMAIN dbProperties :
                    dbProperties[n].name # "Source" /\ dbProperties[n].type = "rich_text"}
    IN IF hits # {} THEN SummaryCandidates[CHOOSE n \in hits : \A m \in hits : n <= m]
       ELSE IF others # {} THEN dbProperties[CHOOSE n \in others : \A m \in others : n <= m].name
            ELSE NoName

SummaryLimit == 1900

\* `Plaud:${rec.id} | ${plaudUrl}`
SourceText(id, plaudUrl) == <<"Plaud:">> \o id \o <<" | ">> \o plaudUrl

buildNotionProperties(rec, baseUrl, dbProperties) ==
    LET summaryPropName == pickSummaryPropertyName(dbProperties)
        writesSummary == summaryPropName # NoName /\ (Truthy(rec.summary) \/ rec.clearSummary)
        plaudUrl == buildPlaudRecordingUrl(baseUrl, rec)
        keys == {"Name", "Date"}
                  \cup (IF writesSummary THEN {summaryPropName} ELSE {})
                  \cup (IF rec.id # NoId THEN {"Source"} ELSE {})
    IN [key \in keys |->
          IF key = "Source"
          THEN IF TypeOf(dbProperties, "Source") = "url"
               THEN [kind |-> "url", value |-> plaudUrl]
               ELSE [kind |-> "rich_text", value |-> SourceText(rec.id, plaudUrl)]
          ELSE IF key = "Name" THEN recordingDisplayName(rec)
          ELSE IF key = "Date"
               THEN (IF toNotionDate(rec.createdAt) # NoDate
                     THEN toNotionDate(rec.createdAt) ELSE Now)
          ELSE IF Truthy(rec.summary) THEN Slice(rec.summary, SummaryLimit)
               ELSE EmptyText]

filterPropertiesForDatabaseUnfiltered(properties, databasePropertyNames) == properties

filterPropertiesForDatabase(properties, databasePropertyNames) ==
    [key \in (DOMAIN properties) \cap databasePropertyNames |-> properties[key]]

ChunkSize == 1800
SummaryBlockCap == 50
TranscriptBlockCap == 90

Block(type, part, tag, off, len, url) ==
    [type |-> type, part |-> part, tag |-> tag, off |-> off, len |-> len, url |-> url]

\* the chunk loops of buildTranscriptChildren: push a chunk, stop once the
\* array is longer than the cap
RECURSIVE pushChunks(_, _, _, _, _)
pushChunks(children, part, text, off, cap) ==
    IF off >= text.len THEN children
    ELSE LET next == Append(children,
                        Block("paragraph", part, text.tag, off,
                              Min(ChunkSize, text.len - off), NoUrl))
         IN IF Len(next) > cap THEN next
            ELSE pushChunks(next, part, text, off + ChunkSize, cap)

\* a variant of the chunk loops that stops one block later
RECURSIVE pushChunksLateBreak(_, _, _, _, _)
pushChunksLateBreak(children, part, text, off, cap) ==
    IF off >= text.len \/ Len(children) > cap + 1 THEN children
    ELSE pushChunksLateBreak(Append(children,
                                Block("paragraph", part, text.tag, off,
                                      Min(ChunkSize, text.len - off), NoUrl)),
                             part, text, off + ChunkSize, cap)

buildTranscriptChildrenLateBreak(rec, baseUrl) ==
    LET plaudUrl == buildPlaudRecordingUrl(baseUrl, rec)
        link == <<Block("link", "", "", 0, 0, plaudUrl)>>
        withSummary ==
            IF Truthy(rec.summary)
            THEN pushChunksLateBreak(
                     Append(link, Block("heading_2", "summary", "", 0, 0, NoUrl)),
                     "summary", rec.summary, 0, SummaryBlockCap)
            ELSE link
    IN IF ~Truthy(rec.transcript) THEN withSummary
       ELSE pushChunksLateBreak(
                Append(withSummary, Block("heading_2", "transcript", "", 0, 0, NoUrl)),
                "transcript", rec.transcript, 0, TranscriptBlockCap)

buildTranscriptChildren(rec, baseUrl) ==
    LET plaudUrl == buildPlaudRecordingUrl(baseUrl, rec)
        link == <<Block("link", "", "", 0, 0, plaudUrl)>>
        withSummary ==
            IF Truthy(rec.summary)
            THEN pushChunks(Append(link, Block("heading_2", "summary", "", 0, 0, NoUrl)),
                            "summary", rec.summary, 0, SummaryBlockCap)
            ELSE link
    IN IF ~Truthy(rec.transcript) THEN withSummary
       ELSE pushChunks(Append(withSummary, Block("heading_2", "transcript", "", 0, 0, NoUrl)),
                       "transcript", rec.transcript, 0, TranscriptBlockCap)

(***************************************************************************)
(* The ledger file.                                                        *)
(***************************************************************************)
File(shape, ids) == [shape |-> shape, ids |-> ids]

\* the two shapes loadSyncedIds reads identities from
WellFormed(f) == f.shape \in {"array", "ids_object"}

\* fs.readFile rejects when there is no file; JSON.parse throws on an empty
\* file and on a file that is not JSON
ReadFails(f) == f.shape = "missing"
ParseFails(f) == f.shape \in {"empty", "invalid"}

loadSyncedIdsArrayOnly(f) ==
    IF f.shape = "array" THEN SetFromArray(f.ids) ELSE <<>>

\* a variant that reads the identities of any JSON document that holds some
\* (such as the {syncedIds: [...]} of the older program)
loadSyncedIdsAnyShape(f) ==
    IF ReadFails(f) \/ ParseFails(f) THEN <<>> ELSE SetFromArray(f.ids)

\* the shape "other" is a JSON document that is neither an array nor an
\* object with an `ids` array; the catch gives the empty Set
loadSyncedIds(f) ==
    IF ReadFails(f) \/ ParseFails(f) THEN <<>>
    ELSE IF f.shape = "array" THEN SetFromArray(f.ids)
    ELSE IF f.shape = "ids_object" THEN SetFromArray(f.ids)
    ELSE <<>>

\* a variant that writes the object of the older program
saveSyncedIdsLegacy(setOfIds) == File("other", setOfIds)

saveSyncedIds(setOfIds) == File("array", setOfIds)

(***************************************************************************)
(* The destination database (the Notion API as the program uses it).       *)
(***************************************************************************)
Page(props, blocks, madeFor) == [props |-> props, blocks |-> blocks, madeFor |-> madeFor]

\* the filter findExistingPageByPlaudId builds
QueryFilter(plaudId, dbProperties, baseUrl) ==
    IF TypeOf(dbProperties, "Source") = "url"
    THEN [kind |-> "url",
          value |-> buildPlaudRecordingUrl(baseUrl, [id |-> plaudId, sourceUrl |-> NoUrl])]
    ELSE [kind |-> "rich_text", value |-> <<"Plaud:">> \o plaudId]

\* databases.query rejects a filter on a property the database does not
\* have, or of another type than the filter's
QueryFails(filter, dbProperties) == TypeOf(dbProperties, "Source") # filter.kind

\* url.equals and rich_text.contains
Satisfies(page, filter) ==
    /\ "Source" \in DOMAIN page.props
    /\ page.props["Source"].kind = filter.kind
    /\ IF filter.kind = "url" THEN page.props["Source"].value = filter.value
       ELSE Contains(page.props["Source"].value, filter.value)

\* findExistingPageByPlaudId without its try/catch: the rejection of the
\* query propagates (-1 stands for the exception)
findExistingPageByPlaudIdNoCatch(plaudId, dbProperties, baseUrl) ==
    IF plaudId = NoId THEN {}
    ELSE LET filter == QueryFilter(plaudId, dbProperties, baseUrl)
         IN IF QueryFails(filter, dbProperties) THEN {-1}
            ELSE {p \in DOMAIN pages : Satisfies(pages[p], filter)}

\* the pages findExistingPageByPlaudId can return (resp.results[0]); the
\* empty set stands for null: a rejected query is caught and gives null
findExistingPageByPlaudId(plaudId, dbProperties, baseUrl) ==
    IF plaudId = NoId THEN {}
    ELSE LET filter == QueryFilter(plaudId, dbProperties, baseUrl)
         IN IF QueryFails(filter, dbProperties) THEN {}
            ELSE {p \in DOMAIN pages : Satisfies(pages[p], filter)}

\* pages.update: the properties of the payload replace the page's
UpdateProps(old, properties) ==
    [key \in (DOMAIN old) \cup (DOMAIN properties) |->
        IF key \in DOMAIN properties THEN properties[key] ELSE old[key]]

ListPageSize == 10
FewBlocks == 3

\* an entry of the call history: the call, the position and the value of the
\* record it was issued for, its payload, and whether it succeeded
Call(op, idx, rec, props, children, ok) ==
    [op |-> op, idx |-> idx, rec |-> rec, props |-> props, children |-> children, ok |-> ok]

(***************************************************************************)
(* Inputs.                                                                 *)
(***************************************************************************)
\* what the DOM scrape returns: the title doubles as the identity
DomBatches ==
    { <<Rec(<<RealTitle.tag>>, RealTitle, NoDate, ShortText, EmptyText, NoUrl)>> }

Schemas ==
    { <<Prop("Name", "title"), Prop("Date", "date"), Prop("Summary", "rich_text"),
        Prop("Source", "rich_text")>>,
      <<Prop("Name", "title"), Prop("Date", "date"), Prop("Source", "url")>>,
      <<Prop("Name", "title"), Prop("Description", "rich_text")>> }

Files ==
    { File("missing", <<>>), File("ids_object", <<IdAB, IdX>>), File("other", <<IdX>>) }

(***************************************************************************)
(* Maps (insertion-ordered, as the JavaScript Map).                        *)
(***************************************************************************)
Entry(key, value) == [key |-> key, value |-> value]

MapSet(m, key, value) ==
    IF \E n \in DOMAIN m : m[n].key = key
    THEN [n \in DOMAIN m |-> IF m[n].key = key THEN Entry(key, value) ELSE m[n]]
    ELSE Append(m, Entry(key, value))

\* new Map(array.map((r) => [String(r.id), r]))
RECURSIVE MapFromRecords(_)
MapFromRecords(records) ==
    IF records = <<>> THEN <<>>
    ELSE LET last == records[Len(records)]
         IN MapSet(MapFromRecords(SubSeq(records, 1, Len(records) - 1)), last.id, last)

\* Array.from(map.values())
MapValues(m) == [n \in DOMAIN m |-> m[n].value]

\* seenSummaries.get(key) || 0, and seenSummaries.set(key, count)
CountOf(counts, key) == IF key \in DOMAIN counts THEN counts[key] ELSE 0
SetCount(counts, key, count) ==
    [x \in (DOMAIN counts) \cup {key} |-> IF x = key THEN count ELSE counts[x]]

(***************************************************************************)
(* extractRecordingsFromApiJson.                                           *)
(*                                                                         *)
(* A JSON value is [t, v]: its type and, for a string, its characters, for *)
(* a number its digits, for an array its elements.  An element of a        *)
(* response holds the values of the five id keys, in the order the code    *)
(* reads them, and the values of the title, summary, transcript and url    *)
(* keys, in that order too.                                                *)
(***************************************************************************)
Undefined == [t |-> "undefined", v |-> <<>>]
Null == [t |-> "null", v |-> <<>>]
Str(chars) == [t |-> "string", v |-> chars]
Num(digits) == [t |-> "number", v |-> digits]
EmptyArray == [t |-> "array", v |-> <<>>]

IdKeys == <<"id", "recordingId", "recording_id", "uuid", "_id">>

Element(ids, titles, createdAt, summaries, transcripts, urls) ==
    [ids |-> ids, titles |-> titles, createdAt |-> createdAt, summaries |-> summaries,
     transcripts |-> transcripts, urls |-> urls]

\* a ?? b ?? ... : the first value that is neither undefined nor null
Nullish(x) == x.t \in {"undefined", "null"}

RECURSIVE Coalesce(_)
Coalesce(values) ==
    IF values = <<>> THEN Undefined
    ELSE IF ~Nullish(Head(values)) THEN Head(values)
         ELSE Coalesce(Tail(values))

\* the truthiness of a JavaScript value
TruthyValue(x) ==
    IF x.t = "string" THEN x.v # <<>>
    ELSE IF x.t = "number" THEN x.v # <<"0">>
    ELSE x.t = "array"

\* String(x): a string is itself, a number its digits, [] the empty string
String(x) == x.v

\* lines 218-287: the candidate pushed for the element r
Candidate(r) ==
    LET title == firstNonEmptyString(r.titles)
    IN Rec(String(Coalesce(r.ids)),
           IF Truthy(title) THEN title ELSE PlaceholderTitle,
           r.createdAt,
           firstNonEmptyString(r.summaries),
           firstNonEmptyString(r.transcripts),
           firstNonEmptyUrl(r.urls))

\* lines 212-216: the elements that pass `if (!id) continue`
HasId(r) == TruthyValue(Coalesce(r.ids))

Score(c) == c.summary.len + c.transcript.len + c.title.len

\* lines 292-303: the Map of the candidates by id, the richest kept
RECURSIVE DedupByScore(_)
DedupByScore(candidates) ==
    IF candidates = <<>> THEN <<>>
    ELSE LET map == DedupByScore(SubSeq(candidates, 1, Len(candidates) - 1))
             c == candidates[Len(candidates)]
             known == {n \in DOMAIN map : map[n].key = c.id}
         IN IF known = {} THEN MapSet(map, c.id, c)
            ELSE IF Score(c) >= Score(map[CHOOSE n \in known : TRUE].value)
                 THEN MapSet(map, c.id, c)
                 ELSE map

\* a variant of the dedup that replaces the kept candidate only for a
\* strictly higher score (the earlier draft is kept on equal scores)
RECURSIVE DedupKeepFirst(_)
DedupKeepFirst(candidates) ==
    IF candidates = <<>> THEN <<>>
    ELSE LET map == DedupKeepFirst(SubSeq(candidates, 1, Len(candidates) - 1))
             c == candidates[Len(candidates)]
             known == {n \in DOMAIN map : map[n].key = c.id}
         IN IF known = {} THEN MapSet(map, c.id, c)
            ELSE IF Score(c) > Score(map[CHOOSE n \in known : TRUE].value)
                 THEN MapSet(map, c.id, c)
                 ELSE map

extractRecordingsFromApiJsonKeepFirst(json) ==
    LET kept == SelectSeq(json, HasId)
    IN MapValues(DedupKeepFirst([n \in DOMAIN kept |-> Candidate(kept[n])]))

\* the argument is the elements of the arrays of the response, in order
extractRecordingsFromApiJson(json) ==
    LET kept == SelectSeq(json, HasId)
    IN MapValues(DedupByScore([n \in DOMAIN kept |-> Candidate(kept[n])]))

\* an element that carries the identity in its first id key
Plain(id, title, createdAt, summary, transcript, url) ==
    Element(<<id, Undefined, Undefined, Undefined, Undefined>>, <<title>>, createdAt,
            <<summary>>, <<transcript>>, <<url>>)

\* the elements the responses of the source carry
Elements ==
    { Plain(Str(IdA), EmptyText, NoDate, GoodText, EmptyText, NoUrl),
      Plain(Str(IdAB), RealTitle, SomeDate, GoodText, EmptyText, NoUrl),
      Plain(Str(IdX), RealTitle, NoDate, GoodText, LongText, NoUrl),
      Plain(Str(IdX), EmptyText, NoDate, NoiseText, EmptyText, ShareUrl),
      Plain(EmptyArray, RealTitle, NoDate, ShortText, EmptyText, NoUrl) }

\* what extractRecordingsFromApiJson makes of them
Drafts == UNION {Range(extractRecordingsFromApiJson(<<r>>)) : r \in Elements}

(***************************************************************************)
(* main(): start of a run.                                                 *)
(***************************************************************************)
Init ==
    /\ pc = "idle"
    /\ file \in Files
    /\ schema \in Schemas
    /\ synced = <<>>
    /\ apiPayloads = <<>>
    /\ recordings = <<>>
    /\ aliased = FALSE
    /\ needs = <<>>
    /\ byId = <<>>
    /\ k = 1
    /\ detailCandidates = <<>>
    /\ i = 1
    /\ seenSummaries = <<>>
    /\ created = 0 /\ updated = 0 /\ skipped = 0 /\ lowSignal = 0
    /\ pages = <<>>
    /\ log = <<>>
    /\ loaded = {}
    /\ harvested = 0
    /\ runBatch = <<>>
    /\ startEmpty = TRUE
    /\ prev = [done |-> FALSE, batch |-> <<>>, startEmpty |-> FALSE, clean |-> FALSE]
    /\ fn = "none"
    /\ input = <<>>
    /\ output = <<>>

AllOk == \A n \in DOMAIN log : log[n].ok

\* what the next run remembers of this one, when this one completed
Previous ==
    IF pc = "done"
    THEN [done |-> TRUE, batch |-> runBatch, startEmpty |-> startEmpty, clean |-> AllOk]
    ELSE [done |-> FALSE, batch |-> <<>>, startEmpty |-> FALSE, clean |-> FALSE]

\* process.env holds a value, an empty or blank string, or nothing
EnvValues == {"undefined", "", "   ", "secret"}

\* String(v).trim()
EnvTrim(v) == IF v = "   " THEN "" ELSE v

\* the value requireEnv returns, "throws" when it throws
requireEnv(v) == IF v = "undefined" \/ EnvTrim(v) = "" THEN "throws" ELSE EnvTrim(v)

\* lines 688-691: a required variable is missing; main() throws before the
\* ledger is loaded
MissingEnv ==
    /\ pc \in {"idle", "done", "failed", "aborted"}
    /\ \E v \in EnvValues : requireEnv(v) = "throws"
    /\ pc' = "aborted"
    /\ synced' = <<>>
    /\ loaded' = {}
    /\ apiPayloads' = <<>>
    /\ recordings' = <<>>
    /\ aliased' = FALSE
    /\ needs' = <<>>
    /\ byId' = <<>>
    /\ k' = 1
    /\ detailCandidates' = <<>>
    /\ i' = 1
    /\ seenSummaries' = <<>>
    /\ created' = 0 /\ updated' = 0 /\ skipped' = 0 /\ lowSignal' = 0
    /\ log' = <<>>
    /\ runBatch' = <<>>
    /\ startEmpty' = (pages = <<>>)
    /\ prev' = Previous
    /\ UNCHANGED <<file, schema, pages, harvested>>
    /\ UNCHANGED pureVars

\* lines 688-707: the variables are set, the ledger is loaded, the browser
\* is launched
StartRun ==
    /\ pc \in {"idle", "done", "failed", "aborted"}
    /\ \E v \in EnvValues : requireEnv(v) # "throws"
    /\ pc' = "login"
    /\ synced' = loadSyncedIds(file)
    /\ loaded' = Range(loadSyncedIds(file))
    /\ apiPayloads' = <<>>
    /\ recordings' = <<>>
    /\ aliased' = FALSE
    /\ needs' = <<>>
    /\ byId' = <<>>
    /\ k' = 1
    /\ detailCandidates' = <<>>
    /\ i' = 1
    /\ seenSummaries' = <<>>
    /\ created' = 0 /\ updated' = 0 /\ skipped' = 0 /\ lowSignal' = 0
    /\ log' = <<>>
    /\ runBatch' = <<>>
    /\ startEmpty' = (pages = <<>>)
    /\ prev' = Previous
    /\ UNCHANGED <<file, schema, pages, harvested>>
    /\ UNCHANGED pureVars

\* line 707: loginToPlaud returns
LoginOk ==
    /\ pc = "login"
    /\ pc' = "harvest"
    /\ UNCHANGED <<file, synced, apiPayloads, recordings, aliased, needs, byId, k,
                   detailCandidates, i, seenSummaries, created, updated, skipped,
                   lowSignal, schema, pages, log, loaded, harvested, runBatch, startEmpty,
                   prev>>
    /\ UNCHANGED pureVars

\* line 707: loginToPlaud throws
LoginFails ==
    /\ pc = "login"
    /\ pc' = "aborted"
    /\ UNCHANGED <<file, synced, apiPayloads, recordings, aliased, needs, byId, k,
                   detailCandidates, i, seenSummaries, created, updated, skipped,
                   lowSignal, schema, pages, log, loaded, harvested, runBatch, startEmpty,
                   prev>>
    /\ UNCHANGED pureVars

(***************************************************************************)
(* getPlaudRecordings.                                                     *)
(***************************************************************************)
\* the response listener: apiPayloads.push(...extracted)
Response ==
    /\ pc = "harvest"
    /\ harvested < MaxHarvest
    /\ \E d \in Drafts : apiPayloads' = Append(apiPayloads, d)
    /\ harvested' = harvested + 1
    /\ UNCHANGED <<pc, file, synced, recordings, aliased, needs, byId, k, detailCandidates,
                   i, seenSummaries, created, updated, skipped, lowSignal, schema, pages,
                   log, loaded, runBatch, startEmpty, prev>>
    /\ UNCHANGED pureVars

\* recordings = apiPayloads; nothing to enrich: that array is returned
ReturnCaptured ==
    /\ pc = "harvest"
    /\ apiPayloads # <<>>
    /\ SelectSeq(apiPayloads, LAMBDA r : ~hasUsefulContent(r)) = <<>>
    /\ recordings' = apiPayloads
    /\ aliased' = TRUE
    /\ runBatch' = apiPayloads
    /\ pc' = "retrieve"
    /\ UNCHANGED <<file, synced, apiPayloads, needs, byId, k, detailCandidates, i,
                   seenSummaries, created, updated, skipped, lowSignal, schema, pages, log,
                   loaded, harvested, startEmpty, prev>>
    /\ UNCHANGED pureVars

\* some record is low-signal: needsEnrichment and byId are built
BeginEnrichment ==
    /\ pc = "harvest"
    /\ apiPayloads # <<>>
    /\ SelectSeq(apiPayloads, LAMBDA r : ~hasUsefulContent(r)) # <<>>
    /\ needs' = SelectSeq(apiPayloads, LAMBDA r : ~hasUsefulContent(r))
    /\ byId' = MapFromRecords(apiPayloads)
    /\ k' = 1
    /\ pc' = "enrich"
    /\ UNCHANGED <<file, synced, apiPayloads, recordings, aliased, detailCandidates, i,
                   seenSummaries, created, updated, skipped, lowSignal, schema, pages, log,
                   loaded, harvested, runBatch, startEmpty, prev>>
    /\ UNCHANGED pureVars

\* the listener of enrichRecordingFromDetailPage: a response seen during the
\* visit of the detail page of needs[k]; only records of that identity are
\* kept (a record without identity is returned at once: no visit)
DetailResponse ==
    /\ pc = "enrich"
    /\ k <= Len(needs)
    /\ needs[k].id # NoId
    /\ harvested < MaxHarvest
    /\ \E e \in Drafts :
         detailCandidates' = IF e.id = needs[k].id THEN Append(detailCandidates, e)
                             ELSE detailCandidates
    /\ harvested' = harvested + 1
    /\ UNCHANGED <<pc, file, synced, apiPayloads, recordings, aliased, needs, byId, k, i,
                   seenSummaries, created, updated, skipped, lowSignal, schema, pages, log,
                   loaded, runBatch, startEmpty, prev>>
    /\ UNCHANGED pureVars

\* the visit is over: the candidates are merged into the record; after the
\* last visit recordings = Array.from(byId.values())
EnrichStep ==
    /\ pc = "enrich"
    /\ k <= Len(needs)
    /\ LET rec == needs[k]
           enriched == enrichFold(rec, detailCandidates)
           map == MapSet(byId, rec.id, mergeRecording(rec, enriched))
       IN /\ byId' = map
          /\ k' = k + 1
          /\ detailCandidates' = <<>>
          /\ IF k = Len(needs)
             THEN /\ recordings' = MapValues(map)
                  /\ runBatch' = MapValues(map)
                  /\ pc' = "retrieve"
             ELSE UNCHANGED <<recordings, runBatch, pc>>
    /\ UNCHANGED <<file, synced, apiPayloads, aliased, needs, i, seenSummaries, created,
                   updated, skipped, lowSignal, schema, pages, log, loaded, harvested,
                   startEmpty, prev>>
    /\ UNCHANGED pureVars

\* no response carried a recording: the DOM scrape supplies the batch
DomFallback ==
    /\ pc = "harvest"
    /\ apiPayloads = <<>>
    /\ \E domResults \in DomBatches :
         /\ harvested + Len(domResults) <= MaxHarvest
         /\ recordings' = domResults
         /\ runBatch' = domResults
         /\ harvested' = harvested + Len(domResults)
    /\ pc' = "retrieve"
    /\ UNCHANGED <<file, synced, apiPayloads, aliased, needs, byId, k, detailCandidates, i,
                   seenSummaries, created, updated, skipped, lowSignal, schema, pages, log,
                   loaded, startEmpty, prev>>
    /\ UNCHANGED pureVars

\* the DOM scrape finds nothing either: getPlaudRecordings throws (line 461)
HarvestFails ==
    /\ pc = "harvest"
    /\ apiPayloads = <<>>
    /\ pc' = "aborted"
    /\ UNCHANGED <<file, synced, apiPayloads, recordings, aliased, needs, byId, k,
                   detailCandidates, i, seenSummaries, created, updated, skipped,
                   lowSignal, schema, pages, log, loaded, harvested, runBatch, startEmpty,
                   prev>>
    /\ UNCHANGED pureVars

\* line 725: notion.databases.retrieve returns the schema
RetrieveSchema ==
    /\ pc = "retrieve"
    /\ pc' = "loop"
    /\ UNCHANGED <<file, synced, apiPayloads, recordings, aliased, needs, byId, k,
                   detailCandidates, i, seenSummaries, created, updated, skipped,
                   lowSignal, schema, pages, log, loaded, harvested, runBatch, startEmpty,
                   prev>>
    /\ UNCHANGED pureVars

\* a variant of RetrieveFails that saves the ledger on the way out
RetrieveFailsSaves ==
    /\ pc = "retrieve"
    /\ pc' = "aborted"
    /\ file' = saveSyncedIds(synced)
    /\ UNCHANGED <<synced, apiPayloads, recordings, aliased, needs, byId, k,
                   detailCandidates, i, seenSummaries, created, updated, skipped,
                   lowSignal, schema, pages, log, loaded, harvested, runBatch, startEmpty,
                   prev>>
    /\ UNCHANGED pureVars

\* line 725: notion.databases.retrieve throws
RetrieveFails ==
    /\ pc = "retrieve"
    /\ pc' = "aborted"
    /\ UNCHANGED <<file, synced, apiPayloads, recordings, aliased, needs, byId, k,
                   detailCandidates, i, seenSummaries, created, updated, skipped,
                   lowSignal, schema, pages, log, loaded, harvested, runBatch, startEmpty,
                   prev>>
    /\ UNCHANGED pureVars

\* the listener of getPlaudRecordings is never removed: a response that
\* arrives during the writes is pushed to the array main() is iterating
LateResponse ==
    /\ pc = "loop"
    /\ aliased
    /\ i <= Len(recordings)
    /\ harvested < MaxHarvest
    /\ \E d \in Drafts :
         /\ apiPayloads' = Append(apiPayloads, d)
         /\ recordings' = Append(recordings, d)
         /\ runBatch' = Append(runBatch, d)
    /\ harvested' = harvested + 1
    /\ UNCHANGED <<pc, file, synced, aliased, needs, byId, k, detailCandidates, i,
                   seenSummaries, created, updated, skipped, lowSignal, schema, pages, log,
                   loaded, startEmpty, prev>>
    /\ UNCHANGED pureVars

(***************************************************************************)
(* writeRecordingToNotion and the per-record loop of main().               *)
(***************************************************************************)
\* how the destination answers the calls of one write: every call succeeds,
\* the create or update call fails, or the block list/append call fails
WriteOutcomes == {"ok", "fail_write", "fail_blocks"}

\* existing = 0 stands for `existing` being null, a negative value for an
\* exception out of the lookup; the result gives the destination after the
\* calls, the calls issued, and the value returned ("threw" when a call or
\* the lookup failed)
writeRecordingToNotion(rec, idx, baseUrl, dbPropertyNames, dbProperties, existing, outcome) ==
    LET properties == filterPropertiesForDatabase(
                          buildNotionProperties(rec, baseUrl, dbProperties), dbPropertyNames)
        children == buildTranscriptChildren(rec, baseUrl)
    IN IF existing < 0
       THEN [pages |-> pages, mode |-> "threw", calls |-> <<>>]
       ELSE IF existing # 0
       THEN IF outcome = "fail_write"
            THEN [pages |-> pages, mode |-> "threw",
                  calls |-> <<Call("update", idx, rec, properties, <<>>, FALSE)>>]
            ELSE LET afterUpdate ==
                         [pages EXCEPT ![existing].props = UpdateProps(@, properties)]
                     oldBlocks == Min(Len(pages[existing].blocks), ListPageSize)
                     appends == Len(children) > 0 /\ oldBlocks < FewBlocks
                     update == Call("update", idx, rec, properties, <<>>, TRUE)
                     list(ok) == Call("list", idx, rec, <<>>, <<>>, ok)
                     append(ok) == Call("append", idx, rec, <<>>, children, ok)
                 IN IF Len(children) = 0
                    THEN [pages |-> afterUpdate, mode |-> "updated", calls |-> <<update>>]
                    ELSE IF outcome = "fail_blocks"
                    THEN [pages |-> afterUpdate, mode |-> "threw",
                          calls |-> IF appends THEN <<update, list(TRUE), append(FALSE)>>
                                    ELSE <<update, list(FALSE)>>]
                    ELSE [pages |-> IF appends
                                    THEN [afterUpdate EXCEPT ![existing].blocks = @ \o children]
                                    ELSE afterUpdate,
                          mode |-> "updated",
                          calls |-> IF appends THEN <<update, list(TRUE), append(TRUE)>>
                                    ELSE <<update, list(TRUE)>>]
       ELSE IF outcome = "ok"
            THEN [pages |-> Append(pages, Page(properties, children, rec.id)),
                  mode |-> "created",
                  calls |-> <<Call("create", idx, rec, properties, children, TRUE)>>]
            ELSE [pages |-> pages, mode |-> "threw",
                  calls |-> <<Call("create", idx, rec, properties, children, FALSE)>>]

\* lines 763-764 of main(): synced.add runs when the write returned
addSyncedAlways(ledger, rec, mode) ==
    IF rec.id # NoId THEN SetAdd(ledger, rec.id) ELSE ledger

addSynced(ledger, rec, mode) ==
    IF mode # "threw" /\ rec.id # NoId THEN SetAdd(ledger, rec.id) ELSE ledger

RepeatLimit == 3

\* lines 743-757 of main(): the record after the noise checks
\* (rec.summary = "" and rec._clearSummary = true when it is cleared)
ClearsSummary(rec, counts) ==
    /\ Truthy(rec.summary)
    /\ \/ isTemplateNoise(rec.summary)
       \/ CountOf(counts, rec.summary) + 1 >= RepeatLimit

Normalized(rec, counts) ==
    IF ClearsSummary(rec, counts)
    THEN [rec EXCEPT !.summary = EmptyText, !.clearSummary = TRUE]
    ELSE rec

\* seenSummaries after the record
Counted(rec, counts) ==
    IF Truthy(rec.summary) /\ ~isTemplateNoise(rec.summary)
    THEN SetCount(counts, rec.summary, CountOf(counts, rec.summary) + 1)
    ELSE counts

\* one iteration of `for (const rec of recordings)`
ProcessRecord ==
    /\ pc = "loop"
    /\ i <= Len(recordings)
    /\ IF ~shouldUpsert(recordings[i])
       THEN /\ skipped' = skipped + 1
            /\ i' = i + 1
            /\ UNCHANGED <<pc, synced, apiPayloads, recordings, seenSummaries, created,
                           updated, lowSignal, pages, log>>
       ELSE LET rec == Normalized(recordings[i], seenSummaries)
                found == findExistingPageByPlaudId(rec.id, schema, BaseUrl)
            IN /\ recordings' = [recordings EXCEPT ![i] = rec]
               /\ apiPayloads' = IF aliased THEN [recordings EXCEPT ![i] = rec]
                                 ELSE apiPayloads
               /\ seenSummaries' = Counted(recordings[i], seenSummaries)
               /\ lowSignal' = IF hasUsefulContent(rec) THEN lowSignal ELSE lowSignal + 1
               /\ \E outcome \in WriteOutcomes :
                  \E existing \in (IF found = {} THEN {0} ELSE found) :
                    LET w == writeRecordingToNotion(rec, i, BaseUrl, PropertyNames(schema),
                                                    schema, existing, outcome)
                    IN /\ outcome = "fail_blocks" => existing # 0
                       /\ pages' = w.pages
                       /\ log' = log \o w.calls
                       /\ synced' = addSynced(synced, rec, w.mode)
                       /\ IF w.mode = "threw"
                          THEN /\ pc' = "failed"
                               /\ UNCHANGED <<created, updated, i>>
                          ELSE /\ created' = IF w.mode = "created" THEN created + 1
                                             ELSE created
                               /\ updated' = IF w.mode = "updated" THEN updated + 1
                                             ELSE updated
                               /\ i' = i + 1
                               /\ pc' = pc
               /\ skipped' = skipped
    /\ UNCHANGED <<file, aliased, needs, byId, k, detailCandidates, schema, loaded,
                   harvested, runBatch, startEmpty, prev>>
    /\ UNCHANGED pureVars

\* the loop is over: saveSyncedIds(synced)
FinishRun ==
    /\ pc = "loop"
    /\ i > Len(recordings)
    /\ file' = saveSyncedIds(synced)
    /\ pc' = "done"
    /\ UNCHANGED <<synced, apiPayloads, recordings, aliased, needs, byId, k,
                   detailCandidates, i, seenSummaries, created, updated, skipped,
                   lowSignal, schema, pages, log, loaded, harvested, runBatch, startEmpty,
                   prev>>
    /\ UNCHANGED pureVars

Next ==
    \/ MissingEnv
    \/ StartRun
    \/ LoginOk
    \/ LoginFails
    \/ Response
    \/ ReturnCaptured
    \/ BeginEnrichment
    \/ DetailResponse
    \/ EnrichStep
    \/ DomFallback
    \/ HarvestFails
    \/ RetrieveSchema
    \/ RetrieveFails
    \/ LateResponse
    \/ ProcessRecord
    \/ FinishRun

Spec == Init /\ [][Next]_vars

TypeOK ==
    /\ pc \in {"idle", "login", "harvest", "enrich", "retrieve", "loop", "done", "failed",
              "aborted"}
    /\ harvested \in 0..MaxHarvest
    /\ i \in 1..(Len(recordings) + 1)

(***************************************************************************)
(* The functions of the program applied on their own: every argument of a  *)
(* bounded set is given to the function, the result is kept in `output`.   *)
(***************************************************************************)
\* sequences over S of length 1..n
SeqsUpTo(S, n) == UNION {[1..m -> S] : m \in 1..n}

\* the values the id keys of an element hold: the identity under the first
\* key, an empty string under the first key and the identity under a later
\* one, null under the first key, no id key at all, a number, an empty array
IdValues ==
    { <<Str(IdA), Undefined, Undefined, Undefined, Undefined>>,
      <<Str(NoId), Undefined, Undefined, Str(IdX), Undefined>>,
      <<Null, Str(IdX), Undefined, Undefined, Undefined>>,
      <<Undefined, Undefined, Undefined, Undefined, Str(IdA)>>,
      <<Undefined, Undefined, Undefined, Undefined, Undefined>>,
      <<Num(<<"7">>), Undefined, Undefined, Undefined, Undefined>>,
      <<EmptyArray, Undefined, Undefined, Undefined, Undefined>> }

ExtractElements ==
    { Element(ids, <<EmptyText, RealTitle>>, NoDate, <<GoodText>>, <<EmptyText>>, <<NoUrl>>)
        : ids \in IdValues }
    \cup { Element(ids, <<EmptyText>>, SomeDate, <<EmptyText>>, <<EmptyText, LongText>>,
                   <<ShareUrl>>) : ids \in IdValues }
    \cup { Element(ids, <<RealTitle>>, NoDate, <<EmptyText>>, <<GoodText>>, <<NoUrl>>)
              : ids \in IdValues }

\* line 378: extractRecordingsFromApiJson(json)
ApplyExtract ==
    /\ fn = "none"
    /\ \E json \in SeqsUpTo(ExtractElements, MaxElements) :
         /\ input' = json
         /\ output' = extractRecordingsFromApiJson(json)
    /\ fn' = "extractRecordingsFromApiJson"
    /\ UNCHANGED runVars

\* the observations of one recording: what extraction and the merge produce
\* (the title is never empty: lines 227 and 311 default it)
Observations ==
    { Rec(IdA, title, createdAt, summary, transcript, sourceUrl) :
        title \in {PlaceholderTitle, RealTitle},
        createdAt \in {NoDate, SomeDate},
        summary \in {EmptyText, GoodText, NoiseText},
        transcript \in {EmptyText, LongText},
        sourceUrl \in {NoUrl, ShareUrl} }

\* the observations that carry no link
FoldObservations == {o \in Observations : o.sourceUrl = NoUrl}

\* lines 350 and 404: mergeRecording(base, enrichment)
ApplyMerge ==
    /\ fn = "none"
    /\ \E baseRec \in Observations, enrichRec \in Observations :
         /\ input' = <<baseRec, enrichRec>>
         /\ output' = mergeRecording(baseRec, enrichRec)
    /\ fn' = "mergeRecording"
    /\ UNCHANGED runVars

\* lines 348-351: the fold over the observations a, b, c of one recording in
\* discovery order, and the other ways of grouping the merges
ApplyMergeFold ==
    /\ fn = "none"
    /\ \E a \in FoldObservations, b \in FoldObservations, c \in FoldObservations :
         /\ input' = <<a, b, c>>
         /\ output' = [fold |-> enrichFold(a, <<b, c>>),
                       refold |-> enrichFold(mergeRecording(a, b), <<c>>),
                       right |-> mergeRecording(a, mergeRecording(b, c))]
    /\ fn' = "enrichFold"
    /\ UNCHANGED runVars

\* a text of the given length that contains the given phrase
Sample(len, phrase) == [tag |-> "sample", len |-> len, phrase |-> phrase]

\* summaries and transcripts around the two thresholds, with and without a
\* marker, in lower, upper and mixed case, and with a phrase that is no marker
SampleSummaries ==
    { EmptyText, Sample(39, ""), Sample(40, ""), Sample(39, "task_alt_rounded"),
      Sample(40, "Detailed Summary"), Sample(500, "TASK_ALT_ROUNDED"),
      Sample(500, "account_circle_rounded"), Sample(60, "Summary") }

SampleTranscripts ==
    { EmptyText, Sample(119, ""), Sample(120, ""), Sample(150, "Detailed Summary") }

\* lines 398 and 759: hasUsefulContent(rec)
ApplyHasUsefulContent ==
    /\ fn = "none"
    /\ \E summary \in SampleSummaries, transcript \in SampleTranscripts :
         LET rec == Rec(IdA, RealTitle, NoDate, summary, transcript, NoUrl)
         IN /\ input' = rec
            /\ output' = hasUsefulContent(rec)
    /\ fn' = "hasUsefulContent"
    /\ UNCHANGED runVars

LedgerIds == {IdA, IdAB, IdX}

\* the ledger files: no file, an empty file, a file that is not JSON, and
\* JSON documents of the three shapes with up to MaxEntries entries
LedgerFiles ==
    { File(shape, <<>>) : shape \in {"missing", "empty", "invalid"} }
    \cup { File(shape, ids) : shape \in {"array", "ids_object", "other"},
                              ids \in {<<>>} \cup SeqsUpTo(LedgerIds, MaxEntries) }

\* the values of the Set `synced`: the identities in any insertion order
SyncedSets ==
    {<<>>} \cup {ids \in SeqsUpTo(LedgerIds, Cardinality(LedgerIds)) :
                   \A m, n \in DOMAIN ids : ids[m] = ids[n] => m = n}

\* line 695: loadSyncedIds()
ApplyLoad ==
    /\ fn = "none"
    /\ \E f \in LedgerFiles :
         /\ input' = f
         /\ output' = loadSyncedIds(f)
    /\ fn' = "loadSyncedIds"
    /\ UNCHANGED runVars

\* line 769: saveSyncedIds(synced), for two Sets
ApplySave ==
    /\ fn = "none"
    /\ \E first \in SyncedSets, second \in SyncedSets :
         /\ input' = <<first, second>>
         /\ output' = <<saveSyncedIds(first), saveSyncedIds(second)>>
    /\ fn' = "saveSyncedIds"
    /\ UNCHANGED runVars

\* lines 769 and 695: the file saveSyncedIds wrote, loaded by the next run
ApplySaveLoad ==
    /\ fn = "none"
    /\ \E setOfIds \in SyncedSets :
         /\ input' = setOfIds
         /\ output' = loadSyncedIds(saveSyncedIds(setOfIds))
    /\ fn' = "saveSyncedIds, loadSyncedIds"
    /\ UNCHANGED runVars

\* lengths around the chunk size and around the two caps of
\* buildTranscriptChildren (48, 49 and 50 chunks; 38, 39 and 89 chunks)
SampleLengths ==
    { 0, 1, 1799, 1800, 1801, 3600, 68400, 70200, 86400, 88200, 88201, 90000,
      158400, 160200, 160201, 200000 }

SampleText(tag, len) ==
    IF len = 0 THEN EmptyText ELSE [tag |-> tag, len |-> len, phrase |-> ""]

\* line 657: buildTranscriptChildren(rec, baseUrl)
ApplyChildren ==
    /\ fn = "none"
    /\ \E s \in SampleLengths, t \in SampleLengths, url \in {NoUrl, ShareUrl} :
         LET rec == Rec(IdA, RealTitle, NoDate, SampleText("summary text", s),
                        SampleText("transcript text", t), url)
         IN /\ input' = rec
            /\ output' = buildTranscriptChildren(rec, BaseUrl)
    /\ fn' = "buildTranscriptChildren"
    /\ UNCHANGED runVars

PureNext ==
    \/ ApplyChildren
    \/ ApplyExtract
    \/ ApplyMerge
    \/ ApplyMergeFold
    \/ ApplyHasUsefulContent
    \/ ApplyLoad
    \/ ApplySave
    \/ ApplySaveLoad

\* the functions are applied before any run: one initial state
PureInit == Init /\ file.shape = "missing" /\ Len(schema) = 4

PureSpec == PureInit /\ [][PureNext]_vars

(***************************************************************************)
(* Vocabulary of the properties.                                           *)
(***************************************************************************)
\* the create and update calls of the current run
WriteCalls == {n \in DOMAIN log : log[n].op \in {"create", "update"}}

\* positions of the batch for which a destination call was issued
Attempted(j) == \E n \in DOMAIN log : log[n].idx = j

\* positions of the batch whose write completed: a create or update call was
\* issued and no call issued for the record failed
Succeeded(j) ==
    /\ \E n \in WriteCalls : log[n].idx = j
    /\ \A n \in DOMAIN log : log[n].idx = j => log[n].ok

SucceededIds == {recordings[j].id : j \in {m \in DOMAIN recordings : Succeeded(m)}}

\* the run has ended, normally or with an exception
RunEnded == pc \in {"done", "failed"}

\* the text of the summary a call carries, in a property or in a block
Carries(call, text) ==
    \/ \E key \in DOMAIN call.props :
          /\ key \notin {"Name", "Date", "Source"}
          /\ call.props[key].tag = text.tag
    \/ \E b \in DOMAIN call.children :
          /\ call.children[b].part = "summary"
          /\ call.children[b].type = "paragraph"
          /\ call.children[b].tag = text.tag

\* the identities of the batch that carry the summary `text`
Carriers(text) == {runBatch[m].id : m \in {n \in DOMAIN runBatch : runBatch[n].summary = text}}

PagesMadeFor(id) == {p \in DOMAIN pages : pages[p].madeFor = id}

(***************************************************************************)
(* C1 - idempotence of two runs over an identical batch.                   *)
(***************************************************************************)
\* the batch holds one record per identity
Resolved(batch) == \A m, n \in DOMAIN batch : batch[m].id = batch[n].id => m = n

\* C1: over a batch with one record per identity and with no call failing,
\* a run that starts on an empty destination leaves exactly one page per
\* useful identified record, and a second run over the identical batch
\* performs zero creates.
C1_Idempotence ==
    /\ (pc = "done" /\ startEmpty /\ AllOk /\ Resolved(runBatch)) =>
          \A n \in DOMAIN runBatch :
             (hasUsefulContent(runBatch[n]) /\ runBatch[n].id # NoId)
                => Cardinality(PagesMadeFor(runBatch[n].id)) = 1
    /\ (pc = "done" /\ AllOk /\ prev.done /\ prev.startEmpty /\ prev.clean
          /\ prev.batch = runBatch /\ Resolved(runBatch)) => created = 0

(***************************************************************************)
(* C2 - low-signal records that are not in the ledger.                     *)
(***************************************************************************)
\* C2 (as claimed): a record that is not in the ledger and is not useful
\* causes no create, update or append call, and is absent from the ledger
\* when the run has ended.
C2_LowSignalNotWritten ==
    \A n \in DOMAIN log :
       (log[n].rec.id \notin loaded /\ ~hasUsefulContent(log[n].rec))
          => /\ log[n].op \notin {"create", "update", "append"}
             /\ RunEnded => log[n].rec.id \notin Range(file.ids)

\* the records the loop has gone through: those before i, and the one whose
\* write threw
Passed(j) == j \in DOMAIN recordings /\ (j < i \/ (j = i /\ pc = "failed"))

\* C2 (amended): a record that is not in the ledger and is not useful is
\* counted as low-signal and is written all the same: exactly one create or
\* update call is issued for it, and once the write has returned its identity,
\* when it has one, is in the ledger (in the file when the run completes).
C2_LowSignalIsWritten ==
    /\ pc \in {"loop", "done", "failed"} =>
          lowSignal = Cardinality({j \in DOMAIN recordings :
                                      Passed(j) /\ ~hasUsefulContent(recordings[j])})
    /\ \A j \in DOMAIN recordings :
          (Passed(j) /\ recordings[j].id \notin loaded /\ ~hasUsefulContent(recordings[j]))
             => /\ Cardinality({n \in WriteCalls : log[n].idx = j}) = 1
                /\ (j < i /\ recordings[j].id # NoId)
                      => recordings[j].id \in Range(synced)
                /\ (pc = "done" /\ recordings[j].id # NoId)
                      => recordings[j].id \in Range(file.ids)

C2_Witness ==
    /\ pc = "done"
    /\ \E j \in DOMAIN recordings :
          /\ recordings[j].id \notin loaded
          /\ ~hasUsefulContent(recordings[j])
          /\ recordings[j].summary = ShortText
          /\ \E n \in WriteCalls : log[n].idx = j /\ log[n].op = "create" /\ log[n].ok

C4_FailureDoesNotAbort ==
    RunEnded => \A j \in DOMAIN recordings : Attempted(j)

(***************************************************************************)
(* C5 - what the ledger holds.                                             *)
(***************************************************************************)
\* C5: every identity of the in-memory ledger, and of the file once saved,
\* was loaded at the start of the run or belongs to a record whose write
\* completed earlier in the run; a record whose write failed is not added.
C5_LedgerOnlyAfterSuccess ==
    /\ Range(synced) \subseteq (loaded \cup SucceededIds)
    /\ pc = "done" => Range(file.ids) \subseteq (loaded \cup SucceededIds)

C5_Witness ==
    /\ pc = "failed"
    /\ \E n \in DOMAIN log : ~log[n].ok /\ log[n].rec.id \notin Range(synced)
    /\ \E j \in DOMAIN recordings : Succeeded(j) /\ recordings[j].id \notin loaded

(***************************************************************************)
(* C6 - the saved ledger at the end of a run.                              *)
(***************************************************************************)
\* C6: when a run has ended, normally or on a failed write, the ledger file
\* contains every identity whose write succeeded during the run.
C6_SavedAtEnd ==
    RunEnded => SucceededIds \subseteq Range(file.ids)

(***************************************************************************)
(* C7 - the ledger file only grows.                                        *)
(***************************************************************************)
\* C7: no step removes an identity from a well-formed ledger file, and the
\* file stays well-formed.
C7_FileGrows ==
    [][WellFormed(file) => (WellFormed(file') /\ Range(file.ids) \subseteq Range(file'.ids))]_vars

C7_Witness ==
    /\ pc = "done"
    /\ loaded # {}
    /\ loaded \subseteq Range(file.ids)
    /\ Range(file.ids) # loaded

(***************************************************************************)
(* C8 - a summary repeated on three records.                               *)
(***************************************************************************)
\* C8: when the same non-empty summary is on three or more records (distinct
\* identities) of the batch, no call of the run carries that summary.
C8_RepeatedSummaryNeverWritten ==
    \A n \in DOMAIN log :
       LET text == runBatch[log[n].idx].summary
       IN (Truthy(text) /\ Cardinality(Carriers(text)) >= RepeatLimit)
             => ~Carries(log[n], text)

(***************************************************************************)
(* C9 - repeats are counted per identity.                                  *)
(***************************************************************************)
\* C9: a summary that is not template noise is cleared only when at least
\* three distinct identities of the batch carry it.
C9_ClearedOnlyForThreeIdentities ==
    \A j \in DOMAIN recordings :
       (Passed(j) /\ recordings[j].clearSummary /\ ~isTemplateNoise(runBatch[j].summary))
          => Cardinality(Carriers(runBatch[j].summary)) >= RepeatLimit

(***************************************************************************)
(* C10 - the payload holds only properties of the schema.                  *)
(***************************************************************************)
\* C10: the property names of every create and update payload are property
\* names of the destination schema.
C10_PayloadWithinSchema ==
    \A n \in WriteCalls : (DOMAIN log[n].props) \subseteq PropertyNames(schema)

C10_Witness ==
    \E n \in WriteCalls :
       /\ log[n].ok
       /\ "Summary" \notin PropertyNames(schema)
       /\ Truthy(log[n].rec.summary)
       /\ ~((DOMAIN buildNotionProperties(log[n].rec, BaseUrl, schema))
               \subseteq PropertyNames(schema))

(***************************************************************************)
(* C11 - the dedup lookup fails open.                                      *)
(***************************************************************************)
\* the destination rejects the dedup query for record j
LookupRejected(j) ==
    /\ recordings[j].id # NoId
    /\ QueryFails(QueryFilter(recordings[j].id, schema, BaseUrl), schema)

\* C11: when the destination rejects the dedup query, the lookup returns
\* "no existing page" and raises nothing, and the write goes on to the create
\* path: a create call, and no update call, is issued for the record.
C11_LookupFailsOpen ==
    \A j \in DOMAIN recordings :
       LookupRejected(j) =>
          /\ findExistingPageByPlaudId(recordings[j].id, schema, BaseUrl) = {}
          /\ Passed(j) =>
                /\ \E n \in DOMAIN log : log[n].idx = j /\ log[n].op = "create"
                /\ \A n \in DOMAIN log : log[n].idx = j => log[n].op = "create"

C11_Witness ==
    /\ pc = "done"
    /\ \E j \in DOMAIN recordings :
          /\ LookupRejected(j)
          /\ Cardinality(PagesMadeFor(recordings[j].id)) >= 2
          /\ \E n \in DOMAIN log : log[n].idx = j /\ log[n].op = "create" /\ log[n].ok

(***************************************************************************)
(* C12 - extraction and the identity of a Draft Record.                    *)
(***************************************************************************)
\* a value that is present and whose string form is not empty
NonEmptyValue(x) == ~Nullish(x) /\ String(x) # NoId

\* the string forms of the non-empty values the id keys of r hold
IdValuesOf(r) == {String(r.ids[n]) : n \in {m \in DOMAIN IdKeys : NonEmptyValue(r.ids[m])}}

\* C12: extractRecordingsFromApiJson yields a Draft Record for an element if
\* and only if one of its id keys holds a non-empty value; every Draft Record
\* has a non-empty identity that is the string form of such a value.
C12_IdentityFromIdKeys ==
    fn = "extractRecordingsFromApiJson" =>
       /\ \A n \in DOMAIN input :
             (IdValuesOf(input[n]) # {})
                <=> (\E d \in Range(output) : d.id \in IdValuesOf(input[n]))
       /\ \A d \in Range(output) :
             /\ d.id # NoId
             /\ \E n \in DOMAIN input : d.id \in IdValuesOf(input[n])

(***************************************************************************)
(* C13 - records with an empty identity.                                   *)
(***************************************************************************)
\* C13: no record with an empty identity has caused a create or update call,
\* and the ledger holds no entry for the empty identity.
C13_EmptyIdentityNeverWritten ==
    /\ \A n \in WriteCalls : log[n].rec.id # NoId
    /\ NoId \notin Range(synced)
    /\ NoId \notin Range(file.ids)

(***************************************************************************)
(* C14 - mergeRecording, field by field.                                   *)
(***************************************************************************)
\* C14: mergeRecording(base, enrichment) has, for title, summary, transcript
\* and sourceUrl, the enrichment's value when it is not empty and the base's
\* otherwise; for createdAt the enrichment's value when present and the
\* base's otherwise; and the identity of the base.
C14_EnrichmentPreferred ==
    fn = "mergeRecording" =>
       LET baseRec == input[1]
           enrichRec == input[2]
       IN /\ output.title = IF enrichRec.title.len > 0 THEN enrichRec.title
                             ELSE baseRec.title
          /\ output.summary = IF enrichRec.summary.len > 0 THEN enrichRec.summary
                               ELSE baseRec.summary
          /\ output.transcript = IF enrichRec.transcript.len > 0 THEN enrichRec.transcript
                                  ELSE baseRec.transcript
          /\ output.sourceUrl = IF Len(enrichRec.sourceUrl) > 0 THEN enrichRec.sourceUrl
                                 ELSE baseRec.sourceUrl
          /\ output.createdAt = IF enrichRec.createdAt # NoDate THEN enrichRec.createdAt
                                 ELSE baseRec.createdAt
          /\ output.id = baseRec.id

C14_Witness ==
    /\ fn = "mergeRecording"
    /\ input[1].title = RealTitle /\ output.title = PlaceholderTitle
    /\ input[2].summary = EmptyText /\ output.summary = GoodText
    /\ input[1].transcript = EmptyText /\ output.transcript = LongText
    /\ input[1].createdAt = SomeDate /\ input[2].createdAt = NoDate
    /\ output.createdAt = SomeDate

(***************************************************************************)
(* C15 - the merge is associative.                                         *)
(***************************************************************************)
\* C15: for observations A, B, C of one identity, merging in discovery order
\* gives mergeRecording(A, mergeRecording(B, C)), and folding [A, B, C]
\* gives what folding [mergeRecording(A, B), C] gives.
C15_MergeAssociative ==
    fn = "enrichFold" =>
       /\ output.fold = output.right
       /\ output.fold = output.refold

C15_Witness ==
    /\ fn = "enrichFold"
    /\ input[1].summary = NoiseText
    /\ input[2].summary = GoodText /\ input[2].transcript = EmptyText
    /\ input[3].summary = EmptyText /\ input[3].transcript = LongText
    /\ output.fold.summary = GoodText
    /\ output.right.transcript = LongText

(***************************************************************************)
(* C16 - hasUsefulContent.                                                 *)
(***************************************************************************)
\* the text contains one of the fixed markers, whatever the case
HasMarker(text) ==
    toLowerCase(text.phrase) \in
       { "account_circle_rounded", "task_alt_rounded", "detailed summary",
         "full transcript (for external use)", "faithful and complete audio transcription",
         "extract meeting tasks and decisions" }

\* C16: hasUsefulContent is true exactly when the summary has at least 40
\* characters and contains no noise marker, or the transcript has at least
\* 120 characters; a summary with a noise marker, however long, does not make
\* the record useful by itself.
C16_UsefulExactly ==
    fn = "hasUsefulContent" =>
       /\ output = (\/ input.summary.len >= 40 /\ ~HasMarker(input.summary)
                    \/ input.transcript.len >= 120)
       /\ (HasMarker(input.summary) /\ input.transcript.len < 120) => output = FALSE

C16_Witness ==
    /\ fn = "hasUsefulContent"
    /\ input.summary.len = 500
    /\ input.summary.phrase = "TASK_ALT_ROUNDED"
    /\ input.transcript.len = 119
    /\ output = FALSE

(***************************************************************************)
(* C17 - loadSyncedIds on a missing or malformed file.                     *)
(***************************************************************************)
\* C17: loadSyncedIds returns the empty set when the ledger file is missing,
\* empty, not valid JSON, or JSON of an unexpected shape.
C17_MalformedGivesEmpty ==
    (fn = "loadSyncedIds" /\ ~WellFormed(input)) => output = <<>>

C17_Witness ==
    /\ fn = "loadSyncedIds"
    /\ input.shape = "other"
    /\ input.ids # <<>>
    /\ output = <<>>

(***************************************************************************)
(* C18 - the saved ledger is sorted.                                       *)
(***************************************************************************)
\* the UTF-16 code unit of a character (of the first character, for a token
\* of several)
CodeUnit(c) ==
    CASE c = "a" -> 97
      [] c = "b" -> 98
      [] c = "x" -> 120
      [] c = "Weekly Sync" -> 87
      [] OTHER -> 0

\* the order of Array.prototype.sort on strings: a comes strictly before b
RECURSIVE Precedes(_, _)
Precedes(a, b) ==
    IF b = <<>> THEN FALSE
    ELSE IF a = <<>> THEN TRUE
    ELSE IF CodeUnit(Head(a)) # CodeUnit(Head(b)) THEN CodeUnit(Head(a)) < CodeUnit(Head(b))
    ELSE Precedes(Tail(a), Tail(b))

Sorted(ids) == \A m, n \in DOMAIN ids : m < n => ~Precedes(ids[n], ids[m])

\* C18: saveSyncedIds writes the identities in sorted order, and two Sets of
\* the same identities built in different insertion orders give the same
\* file contents.
C18_SavedSorted ==
    fn = "saveSyncedIds" =>
       /\ Sorted(output[1].ids)
       /\ Range(input[1]) = Range(input[2]) => output[1] = output[2]

(***************************************************************************)
(* C19 - what loading the ledger returns.                                  *)
(***************************************************************************)
\* C19: loading a file that holds a bare array of identities, or an object
\* with an `ids` array, returns exactly the set of the identities stored;
\* loading the file saveSyncedIds(S) wrote returns S.
C19_LoadReturnsStored ==
    /\ (fn = "loadSyncedIds" /\ WellFormed(input)) =>
          /\ Range(output) = Range(input.ids)
          /\ \A m, n \in DOMAIN output : output[m] = output[n] => m = n
    /\ fn = "saveSyncedIds, loadSyncedIds" => output = input

C19_Witness ==
    /\ fn = "saveSyncedIds, loadSyncedIds"
    /\ input = <<IdX, IdA>>
    /\ output = <<IdX, IdA>>

(***************************************************************************)
(* C20 - failures before the per-record loop.                              *)
(***************************************************************************)
\* the positions of main() before the loop, and the end of a run that failed
\* there
BeforeLoop == {"login", "harvest", "enrich", "retrieve", "aborted"}

\* C20: every step of a run up to a failure before the loop (a missing
\* variable, a failed login, a harvest that finds nothing, a failed schema
\* read) leaves the run with no create, update or append call issued, and
\* leaves the destination and the ledger file as they were.
C20_StartupFailureWritesNothing ==
    [][pc' \in BeforeLoop => (log' = <<>> /\ pages' = pages /\ file' = file)]_vars

C20_Witness ==
    /\ pc = "aborted"
    /\ recordings # <<>>
    /\ pages # <<>>
    /\ file.shape = "ids_object"
    /\ log = <<>>

(***************************************************************************)
(* C21 - the body of a page over repeated runs.                            *)
(***************************************************************************)
\* no block is twice in the body
NoRepeat(blocks) == \A m, n \in DOMAIN blocks : blocks[m] = blocks[n] => m = n

\* C21: after consecutive completed runs over the same one-record batch, with
\* no call failing, no page body holds a content block of the record (the
\* Open-in-Plaud link, a summary or transcript block) more than once.
C21_BodyWrittenOnce ==
    (pc = "done" /\ AllOk /\ prev.done /\ prev.clean /\ prev.batch = runBatch
       /\ Len(runBatch) = 1)
       => \A p \in DOMAIN pages : NoRepeat(pages[p].blocks)

(***************************************************************************)
(* C22 - the marker written for an identity satisfies the lookup for it.   *)
(***************************************************************************)
\* C22: when the database has a Source property, the Source value of every
\* create or update payload issued for a record with an identity satisfies
\* the filter that the lookup builds for that identity and base URL.
C22_MarkerSatisfiesLookup ==
    \A n \in WriteCalls :
       (log[n].rec.id # NoId /\ TypeOf(schema, "Source") \in {"url", "rich_text"})
          => Satisfies(Page(log[n].props, <<>>, log[n].rec.id),
                       QueryFilter(log[n].rec.id, schema, BaseUrl))

(***************************************************************************)
(* C23 - the lookup returns only pages of the identity looked up.          *)
(***************************************************************************)
\* C23: every page that the lookup for the identity of a record of the
\* batch can return was written for that identity, and every update call
\* that succeeded was issued on such a page: the Source value of the payload
\* names the identity the page was created for.
C23_LookupReturnsOwnPage ==
    /\ \A j \in DOMAIN recordings :
          \A p \in findExistingPageByPlaudId(recordings[j].id, schema, BaseUrl) :
             pages[p].madeFor = recordings[j].id
    /\ \A p \in DOMAIN pages :
          \A n \in DOMAIN log :
             (log[n].op = "update" /\ log[n].ok /\ "Source" \in DOMAIN log[n].props
                /\ "Source" \in DOMAIN pages[p].props
                /\ pages[p].props["Source"] = log[n].props["Source"])
                => pages[p].madeFor = log[n].rec.id

(***************************************************************************)
(* C24 - one record, and one reconciliation, per identity in a run.        *)
(***************************************************************************)
\* C24: the batch that getPlaudRecordings returned holds each identity at
\* most once, and the create and update calls of a run that carry the same
\* identity were issued for one position of the batch.
C24_OneReconciliationPerIdentity ==
    /\ pc \in {"retrieve", "loop", "done", "failed"} =>
          \A m, n \in DOMAIN recordings :
             (recordings[m].id # NoId /\ recordings[m].id = recordings[n].id) => m = n
    /\ \A m, n \in WriteCalls :
          (log[m].rec.id # NoId /\ log[m].rec.id = log[n].rec.id)
             => log[m].idx = log[n].idx

(***************************************************************************)
(* C25 - the batch is a snapshot.                                          *)
(***************************************************************************)
\* C25: once getPlaudRecordings has returned, a response callback neither
\* adds a record to the batch that the loop iterates nor changes a record
\* of it: across every step that is not an iteration of the loop, and
\* within a run, the batch stays as it was returned.
C25_BatchIsSnapshot ==
    [][(pc \in {"retrieve", "loop"} /\ pc' \in {"retrieve", "loop", "done", "failed"}
          /\ log' = log /\ skipped' = skipped)
          => recordings' = recordings]_vars

(***************************************************************************)
(* C26 - the returned record against the observations of its identity.     *)
(***************************************************************************)
\* the record r has a summary, a transcript, whenever the observation d has
Covers(r, d) ==
    /\ Truthy(d.summary) => Truthy(r.summary)
    /\ Truthy(d.transcript) => Truthy(r.transcript)

\* C26: when a detail visit ends, the record kept for the identity has a
\* summary (a transcript) whenever an observation of the visit has one; and
\* when getPlaudRecordings returns, every returned record has a summary (a
\* transcript) whenever a captured list draft of its identity has one.
C26_ReturnedAsComplete ==
    [][/\ (pc = "enrich" /\ k' = k + 1) =>
             \A d \in Range(detailCandidates) :
                \A r \in Range(MapValues(byId')) : r.id = d.id => Covers(r, d)
       /\ (pc \in {"harvest", "enrich"} /\ pc' = "retrieve") =>
             \A d \in Range(apiPayloads) :
                d.id # NoId =>
                   \A r \in Range(recordings') : r.id = d.id => Covers(r, d)]_vars

(***************************************************************************)
(* C27 - the dedup of the drafts of one payload.                           *)
(***************************************************************************)
\* the drafts the payload yields, in order
DraftsOf(json) ==
    LET kept == SelectSeq(json, HasId)
    IN [n \in DOMAIN kept |-> Candidate(kept[n])]

\* the combined length of summary, transcript and title
CombinedLength(d) == d.summary.len + d.transcript.len + d.title.len

\* C27: for every identity among the drafts of a payload,
\* extractRecordingsFromApiJson returns exactly one record, and it is the
\* last of the drafts of that identity whose combined length of summary,
\* transcript and title is maximal.
C27_RichestDraftKept ==
    fn = "extractRecordingsFromApiJson" =>
       LET drafts == DraftsOf(input)
       IN \A n \in DOMAIN drafts :
             LET same == {m \in DOMAIN drafts : drafts[m].id = drafts[n].id}
                 richest == {m \in same :
                               \A o \in same :
                                  CombinedLength(drafts[m]) >= CombinedLength(drafts[o])}
                 last == CHOOSE m \in richest : \A o \in richest : o <= m
             IN /\ Cardinality({j \in DOMAIN output : output[j].id = drafts[n].id}) = 1
                /\ \A j \in DOMAIN output :
                      output[j].id = drafts[n].id => output[j] = drafts[last]

\* two drafts of one identity with equal combined lengths: the later is kept
C27_Witness ==
    /\ fn = "extractRecordingsFromApiJson"
    /\ Len(DraftsOf(input)) = 2
    /\ DraftsOf(input)[1].id = DraftsOf(input)[2].id
    /\ DraftsOf(input)[1] # DraftsOf(input)[2]
    /\ CombinedLength(DraftsOf(input)[1]) = CombinedLength(DraftsOf(input)[2])
    /\ output = <<DraftsOf(input)[2]>>

(***************************************************************************)
(* C28 - the blocks of buildTranscriptChildren.                            *)
(***************************************************************************)
\* the text blocks of one part, in order
Chunks(blocks, part) ==
    SelectSeq(blocks, LAMBDA b : b.type = "paragraph" /\ b.part = part)

\* the chunks, taken in order, concatenate to a prefix of the text: each is
\* a non-empty piece of the text, the first starts at the beginning, each
\* next one where the one before ended, and none runs past the end
IsPrefixOf(chunks, text) ==
    \A n \in DOMAIN chunks :
       /\ chunks[n].tag = text.tag
       /\ chunks[n].len > 0
       /\ chunks[n].off = (IF n = 1 THEN 0 ELSE chunks[n - 1].off + chunks[n - 1].len)
       /\ chunks[n].off + chunks[n].len <= text.len

HoldsTitle(name) == Head(name) \notin {"Plaud recording ", "Plaud recording"}

\* C29: when a run reconciles a record whose title is empty or the
\* placeholder, a page written for its identity by an earlier run (no call
\* of this run was issued yet) that holds a title of the source keeps its
\* Name; when the record's summary is empty, such a page that holds a
\* summary keeps it.
C29_UpdateKeepsContent ==
    [][\A p \in DOMAIN pages :
          (pc = "loop" /\ log = <<>> /\ i <= Len(runBatch) /\ runBatch[i].id # NoId
             /\ runBatch[i].id = pages[p].madeFor)
             => /\ (HoldsTitle(pages[p].props["Name"])
                      /\ (~Truthy(runBatch[i].title) \/ IsPlaceholder(runBatch[i].title)))
                      => pages'[p].props["Name"] = pages[p].props["Name"]
                /\ \A key \in DOMAIN pages[p].props \ {"Name", "Date", "Source"} :
                      (Truthy(pages[p].props[key]) /\ ~Truthy(runBatch[i].summary))
                         => pages'[p].props[key] = pages[p].props[key]]_vars
====
